---- MODULE Spec2Model ----
(***************************************************************************)
(* A model of csv_data_cleaner.py: detect_date_columns,                    *)
(* convert_to_datetime, clean_dataframe and process_csv_file.              *)
(*                                                                         *)
(* A string is a sequence of one-character strings, so that strip(),       *)
(* lower() and the substring tests act on characters.  A cell is a record  *)
(* [k, v]: k is the Python type of the value and v its text.  A DataFrame  *)
(* is a record of its column names, their dtypes, its index labels and its *)
(* rows; DataFrame objects live in a heap and are named by references, so  *)
(* that copy() and in-place column assignment are told apart.              *)
(***************************************************************************)
EXTENDS Integers, Sequences, FiniteSets, TLC

(***************************************************************************)
(* Bounds of the model.                                                    *)
(***************************************************************************)
\* rows of a table handed to clean_dataframe / the row-reduction steps
MaxRows == 3
\* rows of a table handed to the text-normalization step alone
MaxTextRows == 2
\* cells of the column scanned by the content pass of detect_date_columns
MaxCells == 21

(***************************************************************************)
(* Characters and strings.                                                 *)
(***************************************************************************)
UpperAlpha ==
  << "A","B","C","D","E","F","G","H","I","J","K","L","M",
     "N","O","P","Q","R","S","T","U","V","W","X","Y","Z" >>

LowerAlpha ==
  << "a","b","c","d","e","f","g","h","i","j","k","l","m",
     "n","o","p","q","r","s","t","u","v","w","x","y","z" >>

Digits == { "0","1","2","3","4","5","6","7","8","9" }

Whitespace == { " ", "\t", "\n" }

\* str.lower() on one character
LowerChar(c) ==
  IF \E i \in DOMAIN UpperAlpha : UpperAlpha[i] = c
  THEN LowerAlpha[CHOOSE i \in DOMAIN UpperAlpha : UpperAlpha[i] = c]
  ELSE c

\* str.lower()
lower(s) == [i \in 1..Len(s) |-> LowerChar(s[i])]

RECURSIVE lstrip(_)
lstrip(s) ==
  IF s # << >> /\ Head(s) \in Whitespace THEN lstrip(Tail(s)) ELSE s

RECURSIVE rstrip(_)
rstrip(s) ==
  IF s # << >> /\ s[Len(s)] \in Whitespace
  THEN rstrip(SubSeq(s, 1, Len(s) - 1))
  ELSE s

\* str.strip()
strip(s) == rstrip(lstrip(s))

\* Python's  kw in s  for strings
Contains(s, kw) ==
  \E i \in 0..(Len(s) - Len(kw)) : SubSeq(s, i + 1, i + Len(kw)) = kw

(***************************************************************************)
(* Cells.                                                                  *)
(***************************************************************************)
\* np.nan, the missing marker
NaN == [k |-> "nan", v |-> << >>]

\* pd.NaT, the missing marker of a datetime64 column
NaT == [k |-> "nat", v |-> << >>]

StrCell(s) == [k |-> "str", v |-> s]

\* an int or float, v its decimal text
NumCell(s) == [k |-> "num", v |-> s]

\* a pd.Timestamp, v its canonical text
Timestamp(s) == [k |-> "ts", v |-> s]

\* a Python object that is neither str, int nor float (bytes, a Decimal ...)
ObjCell(s) == [k |-> "obj", v |-> s]

\* pd.isna
isna(c) == c.k \in {"nan", "nat"}

\* str(val), as astype(str) and detect_date_columns apply it
str(c) ==
  CASE c.k = "nan" -> << "n","a","n" >>
    [] c.k = "nat" -> << "N","a","T" >>
    [] OTHER -> c.v

(***************************************************************************)
(* DataFrames.                                                             *)
(***************************************************************************)
DataFrame(cols, dts, idx, rws) ==
  [columns |-> cols, dtypes |-> dts, index |-> idx, rows |-> rws]

\* len(df)
len(t) == Len(t.rows)

NCols(t) == Len(t.columns)

\* pd.RangeIndex(n): the labels 0..n-1
RangeIndex(n) == [i \in 1..n |-> i - 1]

\* position of a column name in df.columns (names are unique)
ColPos(t, col) == CHOOSE j \in 1..NCols(t) : t.columns[j] = col

ColumnSet(t) == { t.columns[j] : j \in 1..NCols(t) }

\* df[col] as the sequence of its cells
Series(t, col) == [i \in 1..len(t) |-> t.rows[i][ColPos(t, col)]]

\* df[col] = cells, with the dtype the assigned Series has
SetSeries(t, col, cells, dt) ==
  [t EXCEPT !.rows = [i \in 1..len(t) |->
                        [t.rows[i] EXCEPT ![ColPos(t, col)] = cells[i]]],
            !.dtypes = [t.dtypes EXCEPT ![ColPos(t, col)] = dt]]

RECURSIVE SortedSeq(_)
\* the elements of a finite set of integers in increasing order
SortedSeq(S) ==
  IF S = {} THEN << >>
  ELSE LET m == CHOOSE x \in S : \A y \in S : x <= y
       IN  << m >> \o SortedSeq(S \ {m})

\* the rows at the given positions, each with its index label
TakeRows(t, pos) ==
  [t EXCEPT !.rows  = [k \in 1..Len(pos) |-> t.rows[pos[k]]],
            !.index = [k \in 1..Len(pos) |-> t.index[pos[k]]]]

(***************************************************************************)
(* Row reduction: clean_dataframe, lines 114-128.                          *)
(***************************************************************************)
\* a row whose cells are all missing
AllNa(row) == \A j \in 1..Len(row) : isna(row[j])

\* df.dropna(how='all'): a new frame without the all-missing rows
dropna_all(t) ==
  TakeRows(t, SortedSeq({ i \in 1..len(t) : ~AllNa(t.rows[i]) }))

\* df.duplicated(): the row equals an earlier row.  pandas compares rows
\* cell by cell and takes two missing cells of a column to be equal, which
\* is equality of the cell records here.
duplicated(t, i) == \E k \in 1..(i - 1) : t.rows[k] = t.rows[i]

\* drop_duplicates(keep='last'): each row's last occurrence is kept instead
drop_duplicates_keep_last(t) ==
  TakeRows(t, SortedSeq({ i \in 1..len(t) :
                            ~\E k \in (i + 1)..len(t) : t.rows[k] = t.rows[i] }))

\* df.drop_duplicates(): a new frame keeping each row's first occurrence
drop_duplicates(t) ==
  TakeRows(t, SortedSeq({ i \in 1..len(t) : ~duplicated(t, i) }))

\* the index is left as the filters left it
reset_index_noop(t) == t

\* df.reset_index(drop=True)
reset_index(t) == [t EXCEPT !.index = RangeIndex(len(t))]

(***************************************************************************)
(* detect_date_columns, lines 7-53.                                        *)
(***************************************************************************)
\* the keyword list of line 16
DateKeywords ==
  { << "d","a","t","e" >>,
    << "t","i","m","e" >>,
    << "d","a","t","e","t","i","m","e" >>,
    << "t","i","m","e","s","t","a","m","p" >>,
    << "c","r","e","a","t","e","d" >>,
    << "m","o","d","i","f","i","e","d" >> }

\* the keywords are looked for in the name as written
NameMatchesCaseSensitive(col) ==
  \E keyword \in { << "d","a","t","e" >>, << "t","i","m","e" >>,
                   << "c","r","e","a","t","e","d" >>,
                   << "m","o","d","i","f","i","e","d" >> } :
    Contains(col, keyword)

\* lines 15-16: the lower-cased column name holds one of the keywords
NameMatches(col) == \E keyword \in DateKeywords : Contains(lower(col), keyword)

\* the separators of line 41
DateSeparators == { "-", "/", ":", " " }

\* line 25: head(20)
SampleCap == 20

\* line 41: the text holds a separator and a digit
LooksLikeDate(val_str) ==
  /\ \E i \in 1..Len(val_str) : val_str[i] \in DateSeparators
  /\ \E i \in 1..Len(val_str) : val_str[i] \in Digits

\* pd.to_datetime on one text: whether it parses.  The parser is pandas';
\* of it the model keeps that a text of the form dddd-dd-dd is a date and
\* that no other text of the model's tables is one.
ParsesAsDate(val_str) ==
  /\ Len(val_str) = 10
  /\ \A i \in 1..10 :
       IF i \in {5, 8} THEN val_str[i] = "-" ELSE val_str[i] \in Digits

\* line 34: isinstance(val, (str, int, float))
IsStrIntFloat(val) == val.k \in {"str", "num", "nan"}

\* lines 34-47: one iteration of the loop over sample_values;
\* acc holds the counters date_indicators and total_sampled
SampleStep(acc, val) ==
  IF isna(val) \/ ~IsStrIntFloat(val)
  THEN acc
  ELSE LET val_str == str(val)
       IN  [total_sampled |-> acc.total_sampled + 1,
            date_indicators |->
              IF LooksLikeDate(val_str) /\ ParsesAsDate(val_str)
              THEN acc.date_indicators + 1
              ELSE acc.date_indicators]

\* the comparison with 0.3 is >= instead of >
SignificantPortionAtLeast(acc) ==
  /\ acc.total_sampled > 0
  /\ 10 * acc.date_indicators >= 3 * acc.total_sampled

\* line 50: total_sampled > 0 and date_indicators / total_sampled > 0.3.
\* With at most 20 samples the quotient of the two integers, rounded to a
\* double, exceeds the double 0.3 exactly when 10 * d > 3 * t.
SignificantPortion(acc) ==
  /\ acc.total_sampled > 0
  /\ 10 * acc.date_indicators > 3 * acc.total_sampled

\* Series.dropna()
dropna_series(cells) == SelectSeq(cells, LAMBDA c : ~isna(c))

\* Series.head(n)
head(cells, n) == SubSeq(cells, 1, IF Len(cells) < n THEN Len(cells) ELSE n)

RECURSIVE ScanSamples(_, _)
\* lines 33-47: the loop over sample_values
ScanSamples(acc, sample_values) ==
  IF sample_values = << >> THEN acc
  ELSE ScanSamples(SampleStep(acc, Head(sample_values)), Tail(sample_values))

\* lines 25-51: the content test of one column
ContentMatches(t, col) ==
  LET sample_values == head(dropna_series(Series(t, col)), SampleCap)
  IN  /\ Len(sample_values) # 0
      /\ SignificantPortion(
           ScanSamples([total_sampled |-> 0, date_indicators |-> 0],
                       sample_values))

\* lines 11-53: the names found by the name pass, in column order, then
\* those found by the content pass among the remaining columns
detect_date_columns(t) ==
  LET by_name == SelectSeq(t.columns, NameMatches)
      named   == { by_name[i] : i \in 1..Len(by_name) }
  IN  by_name \o
      SelectSeq(t.columns, LAMBDA col : col \notin named /\ ContentMatches(t, col))

(***************************************************************************)
(* convert_to_datetime, lines 55-72.                                       *)
(***************************************************************************)
\* pd.to_datetime(..., errors='coerce') on one cell: a value that does not
\* parse becomes NaT; a number counts nanoseconds from the epoch
to_datetime_cell(c) ==
  CASE c.k = "ts"  -> c
    [] c.k = "str" -> IF ParsesAsDate(c.v) THEN Timestamp(c.v) ELSE NaT
    [] c.k = "num" -> Timestamp(<< "@" >> \o c.v)
    [] OTHER       -> NaT

\* line 68 when pd.to_datetime returns: the column becomes datetime64
to_datetime(cells) == [i \in 1..Len(cells) |-> to_datetime_cell(cells[i])]

RECURSIVE ConvertColumns(_, _, _)
\* lines 61-70: the loop over date_columns; raised is the set of columns on
\* which pd.to_datetime raises, whose exception line 69 catches
ConvertColumns(t, date_columns, raised) ==
  IF date_columns = << >> THEN t
  ELSE LET col  == Head(date_columns)
           rest == Tail(date_columns)
       IN  IF col \notin ColumnSet(t) \/ col \in raised
           THEN ConvertColumns(t, rest, raised)
           ELSE ConvertColumns(
                  SetSeries(t, col, to_datetime(Series(t, col)), "datetime64"),
                  rest, raised)

(***************************************************************************)
(* Text normalization: clean_dataframe, lines 93-112.                      *)
(***************************************************************************)
\* line 93: select_dtypes(include='object').columns
text_columns(t) ==
  SelectSeq(t.columns, LAMBDA col : t.dtypes[ColPos(t, col)] = "object")

\* line 99: astype(str)
astype_str(c) == StrCell(str(c))

\* line 102: .str.strip()
str_strip(c) == IF c.k = "str" THEN StrCell(strip(c.v)) ELSE c

\* line 106: .str.lower()
str_lower(c) == IF c.k = "str" THEN StrCell(lower(c.v)) ELSE c

\* lines 109, 112: Series.replace(text, np.nan) on one cell
replace_nan(c, text) == IF c = StrCell(text) THEN NaN ELSE c

\* only 'nan' is replaced, 'none' is forgotten
CleanTextCellNanOnly(c, is_date) ==
  LET stripped == str_strip(astype_str(c))
      folded   == IF is_date THEN stripped ELSE str_lower(stripped)
  IN  replace_nan(folded, << "n","a","n" >>)

\* the sentinels are replaced before the text is lower-cased
CleanTextCellReplaceFirst(c, is_date) ==
  LET stripped == str_strip(astype_str(c))
      replaced == replace_nan(replace_nan(stripped, << "n","a","n" >>),
                              << "n","o","n","e" >>)
  IN  IF is_date THEN replaced ELSE str_lower(replaced)

\* lines 99-112 on one cell of a column
CleanTextCell(c, is_date) ==
  LET stripped == str_strip(astype_str(c))
      folded   == IF is_date THEN stripped ELSE str_lower(stripped)
  IN  replace_nan(replace_nan(folded, << "n","a","n" >>),
                  << "n","o","n","e" >>)

\* the loop over text_columns without the test of exclude_columns
CleanTextColumnsNoExclude(t, cols, date_columns, exclude_columns) ==
  [t EXCEPT !.rows =
     [i \in 1..len(t) |->
        [j \in 1..NCols(t) |->
           IF \E n \in 1..Len(cols) : cols[n] = t.columns[j]
           THEN CleanTextCell(
                  t.rows[i][j],
                  \E n \in 1..Len(date_columns) : date_columns[n] = t.columns[j])
           ELSE t.rows[i][j]]]]

RECURSIVE CleanTextColumns(_, _, _, _)
\* lines 96-112: the loop over text_columns
CleanTextColumns(t, cols, date_columns, exclude_columns) ==
  IF cols = << >> THEN t
  ELSE LET col     == Head(cols)
           is_date == \E i \in 1..Len(date_columns) : date_columns[i] = col
           cells   == Series(t, col)
       IN  IF col \in exclude_columns
           THEN CleanTextColumns(t, Tail(cols), date_columns, exclude_columns)
           ELSE CleanTextColumns(
                  SetSeries(t, col,
                            [i \in 1..Len(cells) |-> CleanTextCell(cells[i], is_date)],
                            "object"),
                  Tail(cols), date_columns, exclude_columns)

(***************************************************************************)
(* The heap of DataFrame objects.  Reference 0 is None.                    *)
(***************************************************************************)
None == 0

\* df_cleaned = df: the same object under another name
copy_alias(h, ref) == [heap |-> h, ref |-> ref]

\* df.copy(): a new object with the same contents
copy(h, ref) == [heap |-> Append(h, h[ref]), ref |-> Len(h) + 1]

\* a frame returned by dropna / drop_duplicates / reset_index is a new object
alloc(h, t) == [heap |-> Append(h, t), ref |-> Len(h) + 1]

\* except ValueError: the other exceptions leave process_csv_file
CatchesValueErrorOnly(exc) == exc = "ValueError"

\* lines 202-204: except Exception
Catches(exc) == exc \in {"ValueError", "TypeError", "KeyError", "OSError"}

\* the exception classes a stage may raise (all derive from Exception)
ExceptionClasses == {"ValueError", "TypeError", "KeyError", "OSError"}

\* duplicates_removed counted from initial_rows instead of the row count
\* after dropna
DuplicatesRemovedFromInitial(rows_initial, rows_after_nan, rows_after_dedup) ==
  rows_initial - rows_after_dedup

\* lines 121-123: duplicates_removed
DuplicatesRemoved(rows_initial, rows_after_nan, rows_after_dedup) ==
  rows_after_nan - rows_after_dedup

\* what process_csv_file returns: the pair (df_cleaned, output_file)
NonePair == [df_cleaned |-> None, output_file |-> "None"]

NoFrame == DataFrame(<< >>, << >>, << >>, << >>)

VARIABLES
  pc,                      \* the line process_csv_file / clean_dataframe is at
  run,                     \* how many times the step under study was started
  heap,                    \* the DataFrame objects
  df,                      \* process_csv_file's df: the caller's table
  df_cleaned,              \* clean_dataframe's df_cleaned
  exclude_columns,
  date_columns,
  initial_rows,
  all_nan_removed,
  initial_rows_after_nan,
  duplicates_removed,
  final_rows,
  result,                  \* the pair process_csv_file returned
  failed_at,               \* the line an exception was raised at, or "none"
  df0,                     \* history: the table as loaded
  prev,                    \* history: df_cleaned's table when the stage began
  nread,                   \* content pass: cells of df[col] consumed
  nsamples,                \* content pass: len of sample_values consumed
  total_sampled,
  date_indicators,
  seen                     \* history: what kinds of samples were consumed

frameVars == << heap, df, df_cleaned >>
countVars == << initial_rows, all_nan_removed, initial_rows_after_nan,
                duplicates_removed, final_rows >>
scanVars  == << nread, nsamples, total_sampled, date_indicators, seen >>
vars == << pc, run, frameVars, exclude_columns, date_columns, countVars,
           result, failed_at, df0, prev, scanVars >>

\* the table df_cleaned names
Cleaned == heap[df_cleaned]

(***************************************************************************)
(* The tables the model is run on.                                         *)
(***************************************************************************)
cOrderDate == << "O","r","d","e","r","D","a","t","e" >>
cName      == << "N","a","m","e" >>
cDay       == << "D","a","y" >>
cQty       == << "Q","t","y" >>
cID        == << "I","D" >>
cTIME      == << "T","I","M","E" >>
cCreatedAt == << "c","r","e","a","t","e","d","_","a","t" >>
cModified  == << "M","o","d","i","f","i","e","d" >>
cTimestamp == << "T","i","m","e","s","t","a","m","p" >>
cDateTime  == << "d","a","t","e","T","i","m","e" >>

vDate    == StrCell(<< "2","0","2","3","-","0","1","-","0","5" >>)
vRoom    == StrCell(<< "R","o","o","m"," ","5" >>)
vBobPad  == StrCell(<< " ","B","o","b"," " >>)
vBob     == StrCell(<< "b","o","b" >>)
vAbPad   == StrCell(<< " ","A","b"," " >>)
vAb      == StrCell(<< "a","b" >>)
vNaNText == StrCell(<< "N","a","N" >>)
vnan     == StrCell(<< "n","a","n" >>)
vNone    == StrCell(<< "N","o","n","e" >>)
vNonePad == StrCell(<< " ","N","o","n","e"," " >>)
vnone    == StrCell(<< "n","o","n","e" >>)
vEmpty   == StrCell(<< >>)
vFive    == NumCell(<< "5",".","0" >>)
vSeven   == NumCell(<< "7",".","0" >>)
vInt     == NumCell(<< "5" >>)
vBytes   == ObjCell(<< "b","'","1","-","2","'" >>)

Col(name, dtype, values) == [name |-> name, dtype |-> dtype, values |-> values]

\* the column layouts of the files process_csv_file is run on
Schemas ==
  { << Col(cOrderDate, "object", {vDate, vNonePad}),
       Col(cName, "object", {vBobPad, vBob, vNaNText}) >>,
    << Col(cDay, "object", {vDate, vRoom, NaN}),
       Col(cQty, "float64", {NaN, vFive}) >>,
    << Col(cID, "object", {vAbPad, vAb, vNone}),
       Col(cQty, "float64", {NaN, vFive}) >> }
  \cup
  { << Col(name, "object", {NaN, vBob}) >> :
       name \in {cTIME, cCreatedAt, cModified, cTimestamp, cDateTime} }

\* the column layout the row-reduction steps are run on alone
ReduceSchema ==
  << Col(cName, "object", {NaN, vBob, vAb}),
     Col(cQty, "float64", {NaN, vFive, vSeven}) >>

\* the column layout the text-normalization step is run on alone
TextSchema ==
  << Col(cName, "object",
         {NaN, vBobPad, vBob, vNaNText, vnan, vNonePad, vnone, vEmpty, vInt}) >>

\* the values of the column the content pass scans
ScanValues == {vDate, vRoom, vBob, vInt, vBytes, NaN}

SchemaValues(schema) == UNION { schema[j].values : j \in 1..Len(schema) }

RowsOf(schema) ==
  { row \in [1..Len(schema) -> SchemaValues(schema)] :
      \A j \in 1..Len(schema) : row[j] \in schema[j].values }

\* index labels left behind by an earlier filter: 1, 3, 5, ...
OddIndex(n) == [i \in 1..n |-> 2 * i - 1]

\* every table of the layout with at most n rows, labelled 0..n-1 as
\* read_csv labels them or, with odd set, by OddIndex
Tables(schema, n, odd) ==
  { DataFrame([j \in 1..Len(schema) |-> schema[j].name],
              [j \in 1..Len(schema) |-> schema[j].dtype],
              IF odd THEN OddIndex(Len(rws)) ELSE RangeIndex(Len(rws)),
              rws) :
      rws \in UNION { [1..m -> RowsOf(schema)] : m \in 0..n } }

\* the exclusion sets tried on a table: none, or one of its columns
Exclusions(t) == { {} } \cup { {col} : col \in ColumnSet(t) \cap {cID, cOrderDate, cName} }

(***************************************************************************)
(* process_csv_file and clean_dataframe, one action per stage.             *)
(***************************************************************************)
\* nothing counted yet
CountsClear ==
  /\ all_nan_removed = 0
  /\ initial_rows_after_nan = 0
  /\ duplicates_removed = 0
  /\ final_rows = 0

\* the content pass has consumed nothing yet
ScanClear ==
  /\ nread = 0
  /\ nsamples = 0
  /\ total_sampled = 0
  /\ date_indicators = 0
  /\ seen = [typed |-> 0, attempted |-> 0, parsed |-> 0]

\* process_csv_file is entered with a file holding the table df0
Init ==
  /\ pc = "read"
  /\ run = 1
  /\ df0 \in UNION { Tables(schema, MaxRows, FALSE) : schema \in Schemas }
  /\ exclude_columns \in Exclusions(df0)
  /\ heap = << >>
  /\ df = None
  /\ df_cleaned = None
  /\ date_columns = << >>
  /\ initial_rows = 0
  /\ CountsClear
  /\ result = NonePair
  /\ failed_at = "none"
  /\ prev = NoFrame
  /\ ScanClear

\* line 190: df = pd.read_csv(file_path)
ReadCsv ==
  /\ pc = "read"
  /\ heap' = << df0 >>
  /\ df' = 1
  /\ pc' = "copy"
  /\ UNCHANGED << run, df_cleaned, exclude_columns, date_columns, countVars,
                  result, failed_at, df0, prev, scanVars >>

\* lines 81-84: df_cleaned = df.copy(); initial_rows = df_cleaned.shape[0]
CopyInput ==
  /\ pc = "copy"
  /\ LET c == copy(heap, df)
     IN  /\ heap' = c.heap
         /\ df_cleaned' = c.ref
         /\ initial_rows' = len(c.heap[c.ref])
  /\ pc' = "detect"
  /\ UNCHANGED << run, df, exclude_columns, date_columns, all_nan_removed,
                  initial_rows_after_nan, duplicates_removed, final_rows,
                  result, failed_at, df0, prev, scanVars >>

\* line 88: date_columns = detect_date_columns(df_cleaned)
DetectDates ==
  /\ pc = "detect"
  /\ date_columns' = detect_date_columns(Cleaned)
  /\ pc' = "convert"
  /\ UNCHANGED << run, frameVars, exclude_columns, countVars, result,
                  failed_at, df0, prev, scanVars >>

\* line 90: df_cleaned = convert_to_datetime(df_cleaned, date_columns).
\* pd.to_datetime raises on the columns of raised and returns on the others.
ConvertToDatetime ==
  /\ pc = "convert"
  /\ \E raised \in SUBSET { date_columns[i] : i \in 1..Len(date_columns) } :
       LET c == copy(heap, df_cleaned)
       IN  /\ heap' = [c.heap EXCEPT ![c.ref] =
                         ConvertColumns(@, date_columns, raised)]
           /\ df_cleaned' = c.ref
  /\ pc' = "text"
  /\ UNCHANGED << run, df, exclude_columns, date_columns, countVars, result,
                  failed_at, df0, prev, scanVars >>

\* lines 93-112: the text columns are rewritten in place
NormalizeText ==
  /\ pc = "text"
  /\ prev' = Cleaned
  /\ heap' = [heap EXCEPT ![df_cleaned] =
                CleanTextColumns(@, text_columns(@), date_columns,
                                 exclude_columns)]
  /\ pc' = "dropna"
  /\ UNCHANGED << run, df, df_cleaned, exclude_columns, date_columns,
                  countVars, result, failed_at, df0, scanVars >>

\* lines 115-116
DropNa ==
  /\ pc = "dropna"
  /\ prev' = Cleaned
  /\ LET a == alloc(heap, dropna_all(Cleaned))
     IN  /\ heap' = a.heap
         /\ df_cleaned' = a.ref
         /\ all_nan_removed' = initial_rows - len(a.heap[a.ref])
  /\ pc' = "dedup"
  /\ UNCHANGED << run, df, exclude_columns, date_columns, initial_rows,
                  initial_rows_after_nan, duplicates_removed, final_rows,
                  result, failed_at, df0, scanVars >>

\* lines 121-123
DropDuplicates ==
  /\ pc = "dedup"
  /\ LET a == alloc(heap, drop_duplicates(Cleaned))
     IN  /\ heap' = a.heap
         /\ df_cleaned' = a.ref
         /\ initial_rows_after_nan' = len(Cleaned)
         /\ duplicates_removed' =
              DuplicatesRemoved(initial_rows, len(Cleaned), len(a.heap[a.ref]))
  /\ pc' = "reset"
  /\ UNCHANGED << run, df, exclude_columns, date_columns, initial_rows,
                  all_nan_removed, final_rows, result, failed_at, df0, prev,
                  scanVars >>

\* lines 128-133
ResetIndex ==
  /\ pc = "reset"
  /\ LET a == alloc(heap, reset_index(Cleaned))
     IN  /\ heap' = a.heap
         /\ df_cleaned' = a.ref
         /\ final_rows' = len(a.heap[a.ref])
  /\ pc' = "save"
  /\ UNCHANGED << run, df, exclude_columns, date_columns, initial_rows,
                  all_nan_removed, initial_rows_after_nan, duplicates_removed,
                  result, failed_at, df0, prev, scanVars >>

\* lines 135, 198-200: clean_dataframe returns, the file is written and
\* process_csv_file returns (df_cleaned, output_file)
SaveAndReturn ==
  /\ pc = "save"
  /\ result' = [df_cleaned |-> df_cleaned, output_file |-> "cleaned.csv"]
  /\ pc' = "done"
  /\ UNCHANGED << run, frameVars, exclude_columns, date_columns, countVars,
                  failed_at, df0, prev, scanVars >>

\* the lines of process_csv_file's try block
Stages ==
  {"read", "copy", "detect", "convert", "text", "dropna", "dedup", "reset",
   "save"}

\* a statement of the try block raises; lines 202-204 catch an Exception and
\* return (None, None); anything else leaves process_csv_file
StageRaises ==
  /\ pc \in Stages
  /\ \E exc \in ExceptionClasses :
       IF Catches(exc)
       THEN pc' = "done" /\ result' = NonePair
       ELSE pc' = "escaped" /\ result' = result
  /\ failed_at' = pc
  /\ UNCHANGED << run, frameVars, exclude_columns, date_columns, countVars,
                  df0, prev, scanVars >>

Next ==
  \/ ReadCsv
  \/ CopyInput
  \/ DetectDates
  \/ ConvertToDatetime
  \/ NormalizeText
  \/ DropNa
  \/ DropDuplicates
  \/ ResetIndex
  \/ SaveAndReturn
  \/ StageRaises

Spec == Init /\ [][Next]_vars

(***************************************************************************)
(* The text-normalization step on its own, applied once and then again to  *)
(* its own output.                                                         *)
(***************************************************************************)
TextSchemas ==
  { TextSchema, << Col(cQty, "float64", {NaN, vFive}) >> }

InitText ==
  /\ pc = "text"
  /\ run = 1
  /\ df0 \in UNION { Tables(schema, MaxTextRows, FALSE) :
                       schema \in TextSchemas }
  /\ exclude_columns \in Exclusions(df0)
  /\ date_columns \in { << >>, df0.columns }
  /\ heap = << df0 >>
  /\ df = None
  /\ df_cleaned = 1
  /\ initial_rows = len(df0)
  /\ CountsClear
  /\ result = NonePair
  /\ failed_at = "none"
  /\ prev = NoFrame
  /\ ScanClear

\* lines 93-112 are entered again with the table they produced
TextAgain ==
  /\ pc = "dropna"
  /\ run = 1
  /\ run' = 2
  /\ pc' = "text"
  /\ UNCHANGED << frameVars, exclude_columns, date_columns, countVars, result,
                  failed_at, df0, prev, scanVars >>

NextText ==
  \/ NormalizeText
  \/ TextAgain

SpecText == InitText /\ [][NextText]_vars

(***************************************************************************)
(* The row-reduction steps on their own, applied once and then again to    *)
(* their own output.                                                       *)
(***************************************************************************)
InitReduce ==
  /\ pc = "dropna"
  /\ run = 1
  /\ df0 \in Tables(ReduceSchema, MaxRows, FALSE)
             \cup Tables(ReduceSchema, MaxRows, TRUE)
  /\ exclude_columns = {}
  /\ date_columns = << >>
  /\ heap = << df0 >>
  /\ df = None
  /\ df_cleaned = 1
  /\ initial_rows = len(df0)
  /\ CountsClear
  /\ result = NonePair
  /\ failed_at = "none"
  /\ prev = NoFrame
  /\ ScanClear

\* lines 114-133 are entered again with the table they produced
ReduceAgain ==
  /\ pc = "save"
  /\ run = 1
  /\ run' = 2
  /\ initial_rows' = len(Cleaned)
  /\ pc' = "dropna"
  /\ UNCHANGED << frameVars, exclude_columns, date_columns, all_nan_removed,
                  initial_rows_after_nan, duplicates_removed, final_rows,
                  result, failed_at, df0, prev, scanVars >>

NextReduce ==
  \/ DropNa
  \/ DropDuplicates
  \/ ResetIndex
  \/ ReduceAgain

SpecReduce == InitReduce /\ [][NextReduce]_vars

(***************************************************************************)
(* The content pass of detect_date_columns (lines 25-51) on one column     *)
(* whose name holds no keyword, cell by cell.                              *)
(***************************************************************************)
InitScan ==
  /\ pc = "scan"
  /\ run = 1
  /\ df0 = NoFrame
  /\ exclude_columns = {}
  /\ date_columns = << >>
  /\ heap = << >>
  /\ df = None
  /\ df_cleaned = None
  /\ initial_rows = 0
  /\ CountsClear
  /\ result = NonePair
  /\ failed_at = "none"
  /\ prev = NoFrame
  /\ ScanClear

\* the kinds of sample, told from the value itself
TypedValues     == {vDate, vRoom, vBob, vInt}
AttemptedValues == {vDate, vRoom}
ParsedValues    == {vDate}

Tally(n, val, S) == IF val \in S THEN n + 1 ELSE n

\* the next cell of df[col]: dropna() drops a missing one, head(20) drops
\* one past the twentieth, and lines 33-47 run on the others
ScanCell ==
  /\ pc = "scan"
  /\ nread < MaxCells
  /\ nread' = nread + 1
  /\ \E val \in ScanValues :
       IF isna(val) \/ nsamples >= SampleCap
       THEN UNCHANGED << nsamples, total_sampled, date_indicators, seen >>
       ELSE LET acc == SampleStep([total_sampled |-> total_sampled,
                                   date_indicators |-> date_indicators], val)
            IN  /\ nsamples' = nsamples + 1
                /\ total_sampled' = acc.total_sampled
                /\ date_indicators' = acc.date_indicators
                /\ seen' = [typed     |-> Tally(seen.typed, val, TypedValues),
                            attempted |-> Tally(seen.attempted, val, AttemptedValues),
                            parsed    |-> Tally(seen.parsed, val, ParsedValues)]
  /\ UNCHANGED << pc, run, frameVars, exclude_columns, date_columns,
                  countVars, result, failed_at, df0, prev >>

\* the column has ended: lines 26-27 and 50-51
Classify ==
  /\ pc = "scan"
  /\ date_columns' =
       IF nsamples # 0
          /\ SignificantPortion([total_sampled |-> total_sampled,
                                 date_indicators |-> date_indicators])
       THEN Append(date_columns, cDay)
       ELSE date_columns
  /\ pc' = "scanned"
  /\ UNCHANGED << run, frameVars, exclude_columns, countVars, result,
                  failed_at, df0, prev, scanVars >>

NextScan ==
  \/ ScanCell
  \/ Classify

SpecScan == InitScan /\ [][NextScan]_vars
(***************************************************************************)
(* Properties.                                                             *)
(***************************************************************************)
\* every cell of the row is a missing marker
RowIsEmpty(row) == \A j \in DOMAIN row : row[j] \in {NaN, NaT}

\* the rows of t that are not empty and equal no earlier row
FirstOccurrences(t) ==
  { i \in 1..len(t) :
      /\ ~RowIsEmpty(t.rows[i])
      /\ \A k \in 1..(i - 1) : t.rows[k] # t.rows[i] }

\* the non-empty rows of t that equal an earlier row
LaterOccurrences(t) ==
  { i \in 1..len(t) :
      /\ ~RowIsEmpty(t.rows[i])
      /\ \E k \in 1..(i - 1) : t.rows[k] = t.rows[i] }

\* how many elements of S are at most i
Rank(S, i) == Cardinality({ x \in S : x <= i })

\* the row-reduction steps have run once on the table prev
ReducedOnce == pc = "save" /\ run = 1

\* C1: dropna(how='all'), drop_duplicates, reset_index leave exactly the
\* first occurrence of every distinct non-empty row of the input, in the
\* input's order, indexed 0..n-1; the rows counted as empty are the empty
\* rows and the rows counted as duplicates are non-empty rows only.
C1_RowReduction ==
  ReducedOnce =>
    LET F == FirstOccurrences(prev)
    IN  /\ len(Cleaned) = Cardinality(F)
        /\ \A i \in F : Cleaned.rows[Rank(F, i)] = prev.rows[i]
        /\ Cleaned.index = [k \in 1..Cardinality(F) |-> k - 1]
        /\ Cleaned.columns = prev.columns
        /\ Cleaned.dtypes = prev.dtypes
        /\ all_nan_removed =
             Cardinality({ i \in 1..len(prev) : RowIsEmpty(prev.rows[i]) })
        /\ duplicates_removed = Cardinality(LaterOccurrences(prev))

\* C1 witness: a table with an empty row, a repeated row and index labels
\* that are not 0..n-1 has been reduced
C1_Witness ==
  /\ ReducedOnce
  /\ all_nan_removed > 0
  /\ duplicates_removed > 0
  /\ prev.index # RangeIndex(len(prev))

\* C7: the row-reduction steps applied to their own output remove no row
\* as empty and no row as duplicate and return the same table, index 0..n-1
\* included.
C7_ReduceIdempotent ==
  (pc = "save" /\ run = 2) =>
    /\ Cleaned = prev
    /\ Cleaned.index = [k \in 1..len(prev) |-> k - 1]
    /\ all_nan_removed = 0
    /\ duplicates_removed = 0

\* C7 witness: the second application ran on a table of two rows or more
\* from which the first had removed rows
C7_Witness ==
  /\ pc = "save"
  /\ run = 2
  /\ len(Cleaned) >= 2
  /\ len(df0) > len(Cleaned)

\* the final counts of lines 131-133 are set
CountsFinal == pc = "save" \/ (pc = "done" /\ failed_at \in {"none", "save"})

\* C3: rows removed in total = rows removed as empty + rows removed as
\* duplicate, final + removed = initial, and no count is negative.
C3_CountsConsistent ==
  CountsFinal =>
    /\ initial_rows = len(df0)
    /\ final_rows = len(Cleaned)
    /\ initial_rows - final_rows = all_nan_removed + duplicates_removed
    /\ final_rows + (initial_rows - final_rows) = initial_rows
    /\ all_nan_removed >= 0
    /\ duplicates_removed >= 0
    /\ initial_rows - final_rows >= 0

\* C3 witness: a run that removed an empty row and a duplicate row
C3_Witness ==
  /\ pc = "save"
  /\ all_nan_removed > 0
  /\ duplicates_removed > 0

\* the text step has just run on the table prev
TextDone == pc = "dropna"

IsDateColumn(col) == \E i \in 1..Len(date_columns) : date_columns[i] = col

DtypeOf(t, col) == t.dtypes[ColPos(t, col)]

SameColumn(col) ==
  /\ Series(Cleaned, col) = Series(prev, col)
  /\ DtypeOf(Cleaned, col) = DtypeOf(prev, col)

Sentinels == { << "n","a","n" >>, << "n","o","n","e" >> }

\* C4 as claimed: the text step leaves every excluded and every date-like
\* column unchanged, a date-like column that is still text-typed included.
C4_Original ==
  TextDone =>
    \A col \in ColumnSet(prev) :
      (col \in exclude_columns \/ IsDateColumn(col)) => SameColumn(col)

\* C4 as amended: the text step leaves unchanged every excluded column and
\* every date-like column that is not text-typed when the step runs; a
\* date-like column that is still text-typed and is not excluded is
\* stringified, trimmed and has 'nan' / 'none' replaced by the missing
\* marker, without lower-casing.
C4_TextFrame ==
  TextDone =>
    \A col \in ColumnSet(prev) :
      /\ (col \in exclude_columns
            \/ (IsDateColumn(col) /\ DtypeOf(prev, col) # "object"))
           => SameColumn(col)
      /\ (IsDateColumn(col) /\ DtypeOf(prev, col) = "object"
            /\ col \notin exclude_columns)
           => \A i \in 1..len(prev) :
                LET text == strip(str(Series(prev, col)[i]))
                IN  Series(Cleaned, col)[i] =
                      IF text \in Sentinels THEN NaN ELSE StrCell(text)

\* C4 witness: an excluded column holding padded mixed-case text has gone
\* through the text step
C4_Witness ==
  /\ TextDone
  /\ cID \in exclude_columns
  /\ \E i \in 1..len(prev) : Series(prev, cID)[i] = vAbPad

\* the columns the text step rewrote
Normalized(col) ==
  DtypeOf(prev, col) = "object" /\ col \notin exclude_columns

\* C5 as claimed: in every normalized column, a cell whose trimmed text is
\* 'nan' or 'none' in any letter case holds the missing marker afterwards.
C5_Original ==
  TextDone =>
    \A col \in ColumnSet(prev) :
      Normalized(col) =>
        \A i \in 1..len(prev) :
          lower(strip(str(Series(prev, col)[i]))) \in Sentinels
            => Series(Cleaned, col)[i] = NaN

\* C5 as amended: that holds in every normalized column that is not
\* date-like; in a normalized date-like column the text is not case-folded,
\* so only a cell whose trimmed text is exactly 'nan' or 'none' becomes
\* missing and 'NaN', 'None' stay as text.
C5_SentinelsUnified ==
  TextDone =>
    \A col \in ColumnSet(prev) :
      Normalized(col) =>
        \A i \in 1..len(prev) :
          LET text == strip(str(Series(prev, col)[i]))
          IN  IF IsDateColumn(col)
              THEN Series(Cleaned, col)[i] =
                     IF text \in Sentinels THEN NaN ELSE StrCell(text)
              ELSE lower(text) \in Sentinels
                     => Series(Cleaned, col)[i] = NaN

\* C5 witness: the cell 'NaN' of a normalized column that is not date-like
\* has become the missing marker
C5_Witness ==
  /\ TextDone
  /\ cName \in ColumnSet(prev)
  /\ Normalized(cName)
  /\ ~IsDateColumn(cName)
  /\ \E i \in 1..len(prev) :
       Series(prev, cName)[i] = vNaNText /\ Series(Cleaned, cName)[i] = NaN

\* C6: the text step applied to its own output, with the same date-like
\* and exclusion sets, returns a table equal to that output.
C6_TextIdempotent ==
  (pc = "dropna" /\ run = 2) => Cleaned = prev

\* C6 witness: the second application ran on a table in which the first
\* had turned ' None ' into the missing marker
C6_Witness ==
  /\ pc = "dropna"
  /\ run = 2
  /\ \E i \in 1..len(df0) :
       df0.rows[i][1] = vNonePad /\ Cleaned.rows[i][1] = NaN

\* C8: an exception raised by any stage is caught, process_csv_file then
\* returns (None, None); a table is returned only by a run in which no
\* stage raised and it is the fully reduced table; nothing escapes.
C8_AllOrNothing ==
  /\ pc # "escaped"
  /\ failed_at # "none" => (pc = "done" /\ result = NonePair)
  /\ result.df_cleaned # None
       => /\ pc = "done"
          /\ failed_at = "none"
          /\ result.df_cleaned = df_cleaned
          /\ Cleaned = reset_index(drop_duplicates(dropna_all(prev)))

\* C8 witness: the text step raised after the dates had been converted and
\* (None, None) was returned
C8_Witness ==
  /\ pc = "done"
  /\ failed_at = "text"
  /\ df_cleaned # None
  /\ result = NonePair

\* C9: the caller's table holds what it held when it was loaded, the table
\* returned is another object, and the exclusion set is never changed.
C9_InputUntouched ==
  /\ [](df # None => (heap[df] = df0 /\ result.df_cleaned # df))
  /\ [][exclude_columns' = exclude_columns]_vars

\* C9 witness: a run returned a table that differs from the caller's while
\* a column is excluded
C9_Witness ==
  /\ pc = "done"
  /\ result.df_cleaned # None
  /\ heap[result.df_cleaned] # df0
  /\ exclude_columns # {}

\* the column names of the model's tables that hold a keyword of line 16
KeywordNames ==
  {cOrderDate, cTIME, cCreatedAt, cModified, cTimestamp, cDateTime}

\* C10: when detect_date_columns has returned, every column whose name
\* holds a keyword in any letter case is in date_columns exactly once,
\* whatever its cells are.
C10_NameDetected ==
  pc = "convert" =>
    \A col \in ColumnSet(df0) \cap KeywordNames :
      Cardinality({ i \in 1..Len(date_columns) : date_columns[i] = col }) = 1

\* C10 witness: a column named 'Timestamp' whose cells are all missing was
\* classified
C10_Witness ==
  /\ pc = "convert"
  /\ df0.columns = << cTimestamp >>
  /\ len(df0) >= 2
  /\ \A i \in 1..len(df0) : df0.rows[i][1] = NaN
  /\ date_columns = << cTimestamp >>

Classified == date_columns = << cDay >>

\* C2 as claimed: the column is classified exactly when a parse was
\* attempted on some sample and parsed / attempted > 0.3.
C2_Original ==
  pc = "scanned" =>
    (Classified <=> (seen.attempted >= 1
                       /\ 10 * seen.parsed > 3 * seen.attempted))

\* C2 as amended: the column is classified exactly when some sample is a
\* str, int or float and parsed / (number of such samples) > 0.3, the
\* samples on which no parse was attempted counting in the denominator; at
\* exactly 0.3 it is not classified, nor when no parse was attempted.
C2_ContentThreshold ==
  pc = "scanned" =>
    /\ Classified <=> (seen.typed >= 1 /\ 10 * seen.parsed > 3 * seen.typed)
    /\ 10 * seen.parsed = 3 * seen.typed => ~Classified
    /\ seen.attempted = 0 => ~Classified
    /\ ~Classified => date_columns = << >>

\* C2 witness: twenty samples of which six parsed, exactly 0.3, and the
\* column was not classified
C2_Witness ==
  /\ pc = "scanned"
  /\ seen.typed = 20
  /\ seen.parsed = 6
  /\ nread > 20
  /\ ~Classified
====
